---------------------------- MODULE Spec2Model ----------------------------
(* Model of seed/serialize.py: the validation of a seed document, its      *)
(* transformation into a VariationsSeed message and the two file writes    *)
(* of main().  A Python dict is a function whose DOMAIN is its key set, a  *)
(* list is a sequence, and a protobuf message is a function whose DOMAIN   *)
(* holds its repeated fields and the optional fields that have been set.   *)
EXTENDS Integers, Sequences, FiniteSets, TLC

VARIABLES
    seed_data,      \* the document json.load returned (main, line 143)
    pc,             \* position of main()
    outcome,        \* how the run ended: returned code or raised exception
    stdout,         \* the lines printed so far
    calls,          \* the functions entered so far, in order
    seed_message,   \* the VariationsSeed under construction / returned
    idx,            \* position of the study loop of make_variations_seed_message
    serialFile,     \* the file at SERIALNUMBER_PATH
    seedFile,       \* the file at SEED_BIN_PATH
    filesBefore     \* both files as they were when the run started

vars == <<seed_data, pc, outcome, stdout, calls, seed_message, idx,
          serialFile, seedFile, filesBefore>>

-----------------------------------------------------------------------------
(* Bounds of the explored inputs *)

MaxStudies == 2
MaxExperiments == 2
MaxChannels == 2
MaxPlatforms == 2
MaxParams == 1
MaxFeatures == 1
MaxCountries == 1

Weights == {30, 40, 60}
ExperimentNames == <<"A", "B", "C", "D">>
ChannelNames == {"UNKNOWN", "NIGHTLY", "DEV", "BETA", "RELEASE"}
PlatformNames == {"WINDOWS", "MAC", "LINUX", "IOS", "ANDROID", "CHROMEOS"}
FeatureNames == {"F1", "F2"}
CountryNames == {"US", "FR"}
NewSerials == {"s1", "s2"}
OldSerial == "s0"

-----------------------------------------------------------------------------
(* Module-level constants of serialize.py *)

TOTAL_PROBA == 100
PLATFORMS == {"WINDOWS", "MAC", "LINUX", "IOS", "ANDROID"}
CHANNELS == {"UNKNOWN", "NIGHTLY", "BETA", "RELEASE"}

SUPPORTED_CHANNELS ==
    [c \in {"NIGHTLY", "DEV", "BETA", "RELEASE"} |->
        CASE c = "NIGHTLY" -> "CANARY"
          [] c = "DEV"     -> "DEV"
          [] c = "BETA"    -> "BETA"
          [] c = "RELEASE" -> "STABLE"]

supported_platforms ==
    [p \in {"WINDOWS", "MAC", "LINUX", "IOS", "ANDROID"} |->
        CASE p = "WINDOWS" -> "PLATFORM_WINDOWS"
          [] p = "MAC"     -> "PLATFORM_MAC"
          [] p = "LINUX"   -> "PLATFORM_LINUX"
          [] p = "IOS"     -> "PLATFORM_IOS"
          [] p = "ANDROID" -> "PLATFORM_ANDROID"]

-----------------------------------------------------------------------------
(* Helpers *)

Range(s) == {s[i] : i \in 1..Len(s)}

SeqsUpTo(S, n) == UNION {[1..k -> S] : k \in 0..n}

Has(d, key) == key \in DOMAIN d

Count(s, x) == Cardinality({i \in 1..Len(s) : s[i] = x})

-----------------------------------------------------------------------------
(* validate(seed), lines 29-47 *)

RECURSIVE SumWeights(_, _)
SumWeights(experiments, n) ==
    IF n = 0 THEN 0
    ELSE SumWeights(experiments, n - 1) + experiments[n].probability_weight

\* lines 31-33: total_proba of one study
total_proba(study) == SumWeights(study.experiments, Len(study.experiments))

\* line 35 with > in place of != : only an over-allocated study is rejected
WeightFails_OnlyAbove(study) == total_proba(study) > TOTAL_PROBA

\* line 35
WeightFails(study) == total_proba(study) # TOTAL_PROBA

\* line 39
ChannelFails(study) == ~(Range(study.filter.channel) \subseteq CHANNELS)

\* line 43
PlatformFails(study) == ~(Range(study.filter.platform) \subseteq PLATFORMS)

\* The body of the loop for one study: which check returns False, if any,
\* in the order the code makes them
StudyCheck(study) ==
    IF WeightFails(study) THEN "total_proba"
    ELSE IF ChannelFails(study) THEN "channel"
    ELSE IF PlatformFails(study) THEN "platform"
    ELSE "ok"

\* What the failing check prints: the literal text, then the numbers and the
\* names that follow it
PrintedFor(check) ==
    CASE check = "total_proba" ->
            [text |-> "total_proba != ", nums |-> {TOTAL_PROBA}, names |-> {}]
      [] check = "channel" ->
            [text |-> "channel not in ", nums |-> {}, names |-> CHANNELS]
      [] check = "platform" ->
            [text |-> "platform not in ", nums |-> {}, names |-> PLATFORMS]

\* The loop over seed['studies'] from study i on: the result, the study the
\* loop stopped at (0 when it ran to the end) and the check that stopped it
RECURSIVE ValidateFrom(_, _)
ValidateFrom(seed, i) ==
    IF i > Len(seed.studies)
    THEN [ok |-> TRUE, at |-> 0, check |-> "ok"]
    ELSE IF StudyCheck(seed.studies[i]) # "ok"
         THEN [ok |-> FALSE, at |-> i, check |-> StudyCheck(seed.studies[i])]
         ELSE ValidateFrom(seed, i + 1)

validate(seed) == ValidateFrom(seed, 1)


-----------------------------------------------------------------------------
(* make_variations_seed_message(seed_data), lines 71-132 *)

\* lines 88-92: the repeated param field; only name and value are copied
MakeParams(experiment_data) ==
    IF Has(experiment_data, "parameters")
    THEN [i \in 1..Len(experiment_data.parameters) |->
            [name  |-> experiment_data.parameters[i].name,
             value |-> experiment_data.parameters[i].value]]
    ELSE <<>>

\* lines 94-101: the features appended to one list of feature_association
FeatureList(experiment_data, key) ==
    IF Has(experiment_data, "feature_association")
       /\ Has(experiment_data.feature_association, key)
    THEN experiment_data.feature_association[key]
    ELSE <<>>

\* lines 84-101: one Experiment message.  feature_association is a
\* sub-message: it becomes present with the first append to one of its lists
MakeExperiment(experiment_data) ==
    LET base == [name |-> experiment_data.name,
                 probability_weight |-> experiment_data.probability_weight,
                 param |-> MakeParams(experiment_data)]
        en   == FeatureList(experiment_data, "enable_feature")
        dis  == FeatureList(experiment_data, "disable_feature")
    IN  IF en # <<>> \/ dis # <<>>
        THEN base @@ ("feature_association" :>
                        [enable_feature |-> en, disable_feature |-> dis])
        ELSE base

\* lines 103-104
MapChannels(filter_data) ==
    [i \in 1..Len(filter_data.channel) |-> SUPPORTED_CHANNELS[filter_data.channel[i]]]

\* lines 106-114
MapPlatforms(filter_data) ==
    [i \in 1..Len(filter_data.platform) |-> supported_platforms[filter_data.platform[i]]]

\* lines 116-118
CopyCountry(filter_data) ==
    IF Has(filter_data, "country") THEN filter_data.country ELSE <<>>

OptionalFilterKeys == {"min_version", "max_version", "min_os_version", "max_os_version"}

\* lines 120-130 with dict.get(key, "") in place of the membership tests:
\* every field is assigned, an omitted one as the empty string
CopyOptional_Defaulted(filter_data) ==
    [k \in OptionalFilterKeys |-> IF Has(filter_data, k) THEN filter_data[k] ELSE ""]

\* lines 120-130: the optional string fields that get assigned
CopyOptional(filter_data) ==
    [k \in (DOMAIN filter_data) \cap OptionalFilterKeys |-> filter_data[k]]

\* lines 103-130: the Filter message
MakeFilter(filter_data) ==
    [channel  |-> MapChannels(filter_data),
     platform |-> MapPlatforms(filter_data),
     country  |-> CopyCountry(filter_data)] @@ CopyOptional(filter_data)

\* lines 78-130: one Study message
MakeStudy(study_data) ==
    [name            |-> study_data.name,
     consistency     |-> "PERMANENT",
     activation_type |-> "ACTIVATE_ON_STARTUP",
     experiment      |-> [i \in 1..Len(study_data.experiments) |->
                            MakeExperiment(study_data.experiments[i])],
     filter          |-> MakeFilter(study_data.filter)]

\* lines 104 and 114: the names whose dict lookup raises KeyError, in the
\* order the loops meet them (channels first, then platforms)
UnmappedNames(study_data) ==
    SelectSeq(study_data.filter.channel, LAMBDA c : c \notin DOMAIN SUPPORTED_CHANNELS)
    \o SelectSeq(study_data.filter.platform, LAMBDA p : p \notin DOMAIN supported_platforms)

\* line 75 left out: the field keeps its default
SeedSerialField_Unset(serialnumber) == ""

\* line 75: seed.serial_number = serialnumber
SeedSerialField(serialnumber) == serialnumber

\* lines 72-75: the message before the study loop
NewSeed(data, serialnumber) ==
    [version       |-> data.version,
     serial_number |-> SeedSerialField(serialnumber),
     study         |-> <<>>]

-----------------------------------------------------------------------------
(* The files and the encoder *)

\* line 154: SerializeToString: the set fields of the message as tagged
\* entries, one entry per element of the repeated study field
SerializeToString(m) ==
    <<[tag |-> "version", val |-> <<m.version>>],
      [tag |-> "serial_number", val |-> <<m.serial_number>>]>>
    \o [i \in 1..Len(m.study) |-> [tag |-> "study", val |-> <<m.study[i]>>]]

\* line 150: the argument main passes to update_serial_number
UpdateSerialArg(m) == m.serial_number

NoFile(empty) == [exists |-> FALSE, data |-> empty]
FileWith(d) == [exists |-> TRUE, data |-> d]

\* What an earlier successful run left behind
OldMessage == [version |-> 1, serial_number |-> OldSerial, study |-> <<>>]

FilesAtStart ==
    {[serial |-> NoFile(""), bin |-> NoFile(<<>>)],
     [serial |-> FileWith(OldSerial), bin |-> FileWith(SerializeToString(OldMessage))]}

Returned(code) == [kind |-> "returned", code |-> code, exc |-> "", value |-> ""]
Raised(exc, value) == [kind |-> "raised", code |-> 1, exc |-> exc, value |-> value]
Running == [kind |-> "running", code |-> 0, exc |-> "", value |-> ""]

Line(text) == [text |-> text, nums |-> {}, names |-> {}]

-----------------------------------------------------------------------------
(* Input documents (what json.load can return, line 143) *)

DefaultExperiments ==
    <<[name |-> "A", probability_weight |-> 60],
      [name |-> "B", probability_weight |-> 40]>>

DefaultFilter == [channel |-> <<"RELEASE">>, platform |-> <<"WINDOWS">>]

Study(name, experiments, filter) ==
    [name |-> name, experiments |-> experiments, filter |-> filter]

\* The studies that surround the varied study of a document
GoodStudy == Study("Study2", DefaultExperiments, DefaultFilter)
UnknownStudy ==
    Study("Study3", DefaultExperiments,
          [channel |-> <<"BETA", "UNKNOWN">>, platform |-> <<"MAC">>])
BadWeightStudy ==
    Study("Study4", <<[name |-> "A", probability_weight |-> 60],
                      [name |-> "B", probability_weight |-> 30]>>, DefaultFilter)
BaseStudies == {GoodStudy, UnknownStudy, BadWeightStudy}

\* Experiments with every sequence of weights
WeightExperiments ==
    {[i \in 1..Len(ws) |-> [name |-> ExperimentNames[i], probability_weight |-> ws[i]]] :
        ws \in SeqsUpTo(Weights, MaxExperiments)}

WeightStudies ==
    {Study("Study1", e, DefaultFilter) : e \in WeightExperiments}
    \cup {Study("Study1", DefaultExperiments, [channel |-> <<"DEV">>, platform |-> <<"WINDOWS">>]),
          Study("Study1", DefaultExperiments, [channel |-> <<"BETA">>, platform |-> <<"CHROMEOS">>])}

\* Filters with every list of channels, and with every list of platforms
FilterStudies ==
    {Study("Study1", DefaultExperiments, [channel |-> c, platform |-> <<"WINDOWS">>]) :
        c \in SeqsUpTo(ChannelNames, MaxChannels)}
    \cup {Study("Study1", DefaultExperiments, [channel |-> <<"NIGHTLY">>, platform |-> p]) :
        p \in SeqsUpTo(PlatformNames, MaxPlatforms)}

\* The choices for an optional key: no entry, or the key with a value of S
Opt(key, S) == {<<>>} \cup {key :> v : v \in S}

Params == {[name |-> "p1", value |-> "v1"], [name |-> "p2", value |-> ""]}

FeatureAssociations ==
    {e @@ d : e \in Opt("enable_feature", SeqsUpTo(FeatureNames, MaxFeatures)),
              d \in Opt("disable_feature", SeqsUpTo(FeatureNames, MaxFeatures))}

FirstExperiments ==
    {[name |-> "A", probability_weight |-> 60] @@ p @@ f :
        p \in Opt("parameters", SeqsUpTo(Params, MaxParams)),
        f \in Opt("feature_association", FeatureAssociations)}

OptionalFilters ==
    {DefaultFilter @@ c @@ a @@ b @@ x @@ y :
        c \in Opt("country", SeqsUpTo(CountryNames, MaxCountries)),
        a \in Opt("min_version", {"", "1.0"}),
        b \in Opt("max_version", {"2.0"}),
        x \in Opt("min_os_version", {"10"}),
        y \in Opt("max_os_version", {"11"})}

FieldStudies ==
    {Study("Study1", <<e, [name |-> "B", probability_weight |-> 40]>>, DefaultFilter) :
        e \in FirstExperiments}
    \cup {Study("Study1", DefaultExperiments, f) : f \in OptionalFilters}

\* The documents with one study of Rich among at most MaxStudies - 1 studies
\* of BaseStudies, and the document with no study
DocsAround(Rich) ==
    {[version |-> 1, studies |-> <<>>]}
    \cup {[version |-> 1, studies |-> pre \o <<s>> \o post] :
            s \in Rich,
            pre \in SeqsUpTo(BaseStudies, MaxStudies - 1),
            post \in SeqsUpTo(BaseStudies, MaxStudies - 1)}

Fits(doc) == Len(doc.studies) <= MaxStudies

\* The documents with every sequence of at most MaxStudies studies of S
DocsOver(S) == {[version |-> 1, studies |-> ss] : ss \in SeqsUpTo(S, MaxStudies)}

-----------------------------------------------------------------------------
(* The state after json.load, line 143 *)

InitWith(Docs) ==
    /\ seed_data \in {d \in Docs : Fits(d)}
    /\ pc = "validate"
    /\ outcome = Running
    /\ stdout = <<>>
    /\ calls = <<>>
    /\ seed_message = [version |-> 0, serial_number |-> "", study |-> <<>>]
    /\ idx = 0
    /\ \E f \in FilesAtStart :
          /\ serialFile = f.serial
          /\ seedFile = f.bin
          /\ filesBefore = f

Init == InitWith(DocsOver(WeightStudies \cup BaseStudies))
InitFilter == InitWith(DocsAround(FilterStudies))
InitFields == InitWith(DocsAround(FieldStudies))

-----------------------------------------------------------------------------
(* main(), lines 145-156 *)

\* lines 146-148 without the return: the failure is printed and main goes on
ValidateFails_GoesOn ==
    /\ pc = "validate"
    /\ ~validate(seed_data).ok
    /\ calls' = Append(calls, "validate")
    /\ stdout' = stdout \o <<PrintedFor(validate(seed_data).check),
                              Line("Seed data is invalid")>>
    /\ pc' = "make_seed"
    /\ UNCHANGED <<seed_data, outcome, seed_message, idx, serialFile, seedFile, filesBefore>>

\* lines 146-148: validate returns False
ValidateFails ==
    /\ pc = "validate"
    /\ ~validate(seed_data).ok
    /\ calls' = Append(calls, "validate")
    /\ stdout' = stdout \o <<PrintedFor(validate(seed_data).check),
                              Line("Seed data is invalid")>>
    /\ outcome' = Returned(-1)
    /\ pc' = "done"
    /\ UNCHANGED <<seed_data, seed_message, idx, serialFile, seedFile, filesBefore>>

\* line 146: validate returns True
ValidatePasses ==
    /\ pc = "validate"
    /\ validate(seed_data).ok
    /\ calls' = Append(calls, "validate")
    /\ pc' = "make_seed"
    /\ UNCHANGED <<seed_data, outcome, stdout, seed_message, idx,
                   serialFile, seedFile, filesBefore>>

\* lines 72-75: the message is created, get_serial_number is called
MakeSeedBegin ==
    /\ pc = "make_seed"
    /\ \E serialnumber \in NewSerials :
          seed_message' = NewSeed(seed_data, serialnumber)
    /\ calls' = calls \o <<"make_variations_seed_message", "get_serial_number">>
    /\ idx' = 1
    /\ pc' = "studies"
    /\ UNCHANGED <<seed_data, outcome, stdout, serialFile, seedFile, filesBefore>>

\* lines 77-130: one pass of the study loop
MakeSeedStudy ==
    /\ pc = "studies"
    /\ idx <= Len(seed_data.studies)
    /\ UnmappedNames(seed_data.studies[idx]) = <<>>
    /\ seed_message' = [seed_message EXCEPT
                          !.study = Append(@, MakeStudy(seed_data.studies[idx]))]
    /\ idx' = idx + 1
    /\ UNCHANGED <<seed_data, pc, outcome, stdout, calls, serialFile, seedFile, filesBefore>>

\* lines 104, 114: a lookup of a name that is no key of the table raises
\* KeyError, which nothing catches
MakeSeedKeyError ==
    /\ pc = "studies"
    /\ idx <= Len(seed_data.studies)
    /\ UnmappedNames(seed_data.studies[idx]) # <<>>
    /\ outcome' = Raised("KeyError", Head(UnmappedNames(seed_data.studies[idx])))
    /\ pc' = "done"
    /\ UNCHANGED <<seed_data, stdout, calls, seed_message, idx,
                   serialFile, seedFile, filesBefore>>

\* line 132, then line 150
MakeSeedReturn ==
    /\ pc = "studies"
    /\ idx > Len(seed_data.studies)
    /\ pc' = "update_serial"
    /\ UNCHANGED <<seed_data, outcome, stdout, calls, seed_message, idx,
                   serialFile, seedFile, filesBefore>>

\* line 64: open(SERIALNUMBER_PATH, "w") creates or truncates the file
UpdateSerialOpen ==
    /\ pc = "update_serial"
    /\ calls' = Append(calls, "update_serial_number")
    /\ serialFile' = FileWith("")
    /\ pc' = "write_serial"
    /\ UNCHANGED <<seed_data, outcome, stdout, seed_message, idx, seedFile, filesBefore>>

\* line 64: open raises OSError
UpdateSerialOpenFails ==
    /\ pc = "update_serial"
    /\ calls' = Append(calls, "update_serial_number")
    /\ outcome' = Raised("OSError", "serialnumber")
    /\ pc' = "done"
    /\ UNCHANGED <<seed_data, stdout, seed_message, idx, serialFile, seedFile, filesBefore>>

\* lines 65-68
UpdateSerialWrite ==
    /\ pc = "write_serial"
    /\ serialFile' = FileWith(UpdateSerialArg(seed_message))
    /\ stdout' = Append(stdout, [text |-> "Updated serial number with %s in %s",
                                 nums |-> {},
                                 names |-> {UpdateSerialArg(seed_message)}])
    /\ pc' = "open_seed"
    /\ UNCHANGED <<seed_data, outcome, calls, seed_message, idx, seedFile, filesBefore>>

\* line 65: the write raises OSError; the file stays truncated
UpdateSerialWriteFails ==
    /\ pc = "write_serial"
    /\ outcome' = Raised("OSError", "serialnumber")
    /\ pc' = "done"
    /\ UNCHANGED <<seed_data, stdout, calls, seed_message, idx,
                   serialFile, seedFile, filesBefore>>

\* line 153: open(SEED_BIN_PATH, "wb") creates or truncates the file
SeedOpen ==
    /\ pc = "open_seed"
    /\ seedFile' = FileWith(<<>>)
    /\ pc' = "write_seed"
    /\ UNCHANGED <<seed_data, outcome, stdout, calls, seed_message, idx,
                   serialFile, filesBefore>>

\* line 153: open raises OSError
SeedOpenFails ==
    /\ pc = "open_seed"
    /\ outcome' = Raised("OSError", "seed.bin")
    /\ pc' = "done"
    /\ UNCHANGED <<seed_data, stdout, calls, seed_message, idx,
                   serialFile, seedFile, filesBefore>>

\* lines 154-156
SeedWrite ==
    /\ pc = "write_seed"
    /\ calls' = Append(calls, "SerializeToString")
    /\ seedFile' = FileWith(SerializeToString(seed_message))
    /\ stdout' = Append(stdout, Line("Seed data serialized and saved to "))
    /\ outcome' = Returned(0)
    /\ pc' = "done"
    /\ UNCHANGED <<seed_data, seed_message, idx, serialFile, filesBefore>>

\* line 154: the write raises OSError; the file stays truncated
SeedWriteFails ==
    /\ pc = "write_seed"
    /\ calls' = Append(calls, "SerializeToString")
    /\ outcome' = Raised("OSError", "seed.bin")
    /\ pc' = "done"
    /\ UNCHANGED <<seed_data, stdout, seed_message, idx, serialFile, seedFile, filesBefore>>

Next ==
    \/ ValidateFails
    \/ ValidatePasses
    \/ MakeSeedBegin
    \/ MakeSeedStudy
    \/ MakeSeedKeyError
    \/ MakeSeedReturn
    \/ UpdateSerialOpen
    \/ UpdateSerialOpenFails
    \/ UpdateSerialWrite
    \/ UpdateSerialWriteFails
    \/ SeedOpen
    \/ SeedOpenFails
    \/ SeedWrite
    \/ SeedWriteFails

Spec == Init /\ [][Next]_vars
SpecFilter == InitFilter /\ [][Next]_vars
SpecFields == InitFields /\ [][Next]_vars

-----------------------------------------------------------------------------
(* What the properties below speak of, stated without the operators of the  *)
(* model of validate and of the transformer                                 *)

RECURSIVE WeightSum(_)
WeightSum(experiments) ==
    IF experiments = <<>> THEN 0
    ELSE Head(experiments).probability_weight + WeightSum(Tail(experiments))

SumsTo100(study) == WeightSum(study.experiments) = 100

BadChannels(study) == {c \in Range(study.filter.channel) : c \notin CHANNELS}
BadPlatforms(study) == {p \in Range(study.filter.platform) : p \notin PLATFORMS}

\* The study breaks one of the three rules of validation
Invalid(study) ==
    ~SumsTo100(study) \/ BadChannels(study) # {} \/ BadPlatforms(study) # {}

InvalidDocument == \E i \in 1..Len(seed_data.studies) : Invalid(seed_data.studies[i])

ValidationDone == pc # "validate"
ValidationFailed == pc = "done" /\ outcome = Returned(-1)
ValidationPassed == ValidationDone /\ ~ValidationFailed

RunEnded == pc = "done"
RunSucceeded == pc = "done" /\ outcome = Returned(0)

\* The serial number a reader decodes from the bytes of the binary artifact
SerialNumberIn(bytes) ==
    LET at == {i \in 1..Len(bytes) : bytes[i].tag = "serial_number"}
    IN  IF at = {} THEN "" ELSE bytes[CHOOSE i \in at : TRUE].val[1]

-----------------------------------------------------------------------------
\* C1: validate succeeds only if every study's probability weights sum to
\* exactly 100; if the sum of any study differs from 100 (a study with no
\* experiments included), validate fails.
C1_ValidateWeights ==
    ValidationDone =>
        /\ ValidationPassed =>
              \A i \in 1..Len(seed_data.studies) : SumsTo100(seed_data.studies[i])
        /\ (\E i \in 1..Len(seed_data.studies) : ~SumsTo100(seed_data.studies[i]))
              => ValidationFailed

\* validate has failed on a document whose second study has no experiment and
\* whose first study is valid
C1_Witness ==
    /\ ValidationFailed
    /\ Len(seed_data.studies) = 2
    /\ ~Invalid(seed_data.studies[1])
    /\ seed_data.studies[2].experiments = <<>>

\* C2: when validation fails (weights, channel or platform), the transformer
\* is never invoked, neither file is written and the run ends with a
\* non-zero result.
C2_FailureShortCircuits ==
    InvalidDocument =>
        /\ "make_variations_seed_message" \notin Range(calls)
        /\ "update_serial_number" \notin Range(calls)
        /\ serialFile = filesBefore.serial
        /\ seedFile = filesBefore.bin
        /\ ValidationDone =>
              /\ RunEnded
              /\ outcome.kind = "returned"
              /\ outcome.code # 0

\* a run over a document whose only defect is a platform outside the allowed
\* set has ended, with both files of an earlier run in place
C2_Witness ==
    /\ RunEnded
    /\ \E i \in 1..Len(seed_data.studies) :
          /\ BadPlatforms(seed_data.studies[i]) # {}
          /\ SumsTo100(seed_data.studies[i])
          /\ BadChannels(seed_data.studies[i]) = {}
    /\ \A i \in 1..Len(seed_data.studies) : SumsTo100(seed_data.studies[i])
    /\ filesBefore.serial.exists

\* C3: the channel names validate accepts are exactly the channel names the
\* transformer's table maps: every channel of a document that passed
\* validation has a mapping, and a study is rejected for its channels only
\* if one of them has no mapping.
C3_SameChannelSets ==
    /\ ValidationPassed =>
          \A i \in 1..Len(seed_data.studies) :
              Range(seed_data.studies[i].filter.channel) \subseteq DOMAIN SUPPORTED_CHANNELS
    /\ (ValidationFailed /\ PrintedFor("channel") \in Range(stdout)) =>
          \E i \in 1..Len(seed_data.studies) :
              ~(Range(seed_data.studies[i].filter.channel) \subseteq DOMAIN SUPPORTED_CHANNELS)

\* C4: a channel or platform name without an entry in its table ends the run
\* in an explicit UnsupportedEnumValue(kind, value) error and never in an
\* unchecked lookup error; no document that passed validation drives the run
\* into an unchecked lookup error.
C4_ExplicitEnumError ==
    /\ outcome.exc # "KeyError"
    /\ (RunEnded /\ ValidationPassed
        /\ \E i \in 1..Len(seed_data.studies) :
              ~(Range(seed_data.studies[i].filter.channel) \subseteq DOMAIN SUPPORTED_CHANNELS))
          => outcome.exc = "UnsupportedEnumValue"

\* C5: in every reachable state, a run that failed or stopped between the
\* two writes included, the serial number readable in the serial-number file
\* is the serial number of the binary artifact readable at the output path.
C5_SerialMatchesBinary ==
    (serialFile.exists /\ serialFile.data # "") =>
        /\ seedFile.exists
        /\ SerialNumberIn(seedFile.data) = serialFile.data

\* C10: a failure at any step (validation, transformation, either write)
\* leaves both files as they were before the run started.
C10_NoPartialOutput ==
    (RunEnded /\ ~RunSucceeded) =>
        /\ serialFile = filesBefore.serial
        /\ seedFile = filesBefore.bin

\* The calls made before the transformer was entered
CallsBeforeTransformer ==
    LET at == {i \in 1..Len(calls) : calls[i] = "make_variations_seed_message"}
    IN  IF at = {} THEN calls ELSE SubSeq(calls, 1, (CHOOSE i \in at : TRUE) - 1)

SerialFileMatchesSeed ==
    RunSucceeded =>
        /\ serialFile.exists /\ seedFile.exists
        /\ serialFile.data # ""
        /\ serialFile.data = SerialNumberIn(seedFile.data)

\* C6 as stated: in every run the serial number generator is called exactly
\* once, before transformation, and after a successful run the string in the
\* serial-number file equals the serial_number of the encoded WireSeed.
C6_OncePerRunBeforeTransform ==
    /\ RunEnded =>
          /\ Count(calls, "get_serial_number") = 1
          /\ Count(CallsBeforeTransformer, "get_serial_number") = 1
    /\ SerialFileMatchesSeed

\* C6 as amended: the generator is called at most once in a run, not at all
\* when validation fails, and exactly once when validation passes: by the
\* transformer itself, as its first call, before any study is transformed.
\* After a successful run the string in the serial-number file equals the
\* serial_number of the WireSeed encoded into the binary artifact.
C6_OncePerTransformation ==
    /\ Count(calls, "get_serial_number") <= 1
    /\ ValidationFailed => Count(calls, "get_serial_number") = 0
    /\ Count(CallsBeforeTransformer, "get_serial_number") = 0
    /\ "make_variations_seed_message" \in Range(calls) =>
          /\ Count(calls, "get_serial_number") = 1
          /\ seed_message.serial_number \in NewSerials
    /\ seed_message.study # <<>> => Count(calls, "get_serial_number") = 1
    /\ (ValidationPassed /\ RunEnded) => Count(calls, "get_serial_number") = 1
    /\ SerialFileMatchesSeed
    /\ RunSucceeded => serialFile.data = seed_message.serial_number

\* a run over two studies has succeeded and replaced the files of an earlier run
C6_Witness ==
    /\ RunSucceeded
    /\ Len(seed_message.study) = 2
    /\ filesBefore.serial.exists
    /\ serialFile.data = seed_message.serial_number
    /\ SerialNumberIn(seedFile.data) = seed_message.serial_number

-----------------------------------------------------------------------------
(* The fields of C7, read from the input and from the output.  A repeated   *)
(* field has no presence of its own and is compared by value; a field of an *)
(* unset sub-message reads as its default.                                  *)

OutFeatures(experiment, key) ==
    IF Has(experiment, "feature_association")
    THEN experiment.feature_association[key] ELSE <<>>

ParamsEqual(in, out) ==
    /\ Len(out) = Len(in)
    /\ \A i \in 1..Len(in) : out[i].name = in[i].name /\ out[i].value = in[i].value

\* values: every field present in the input has an equal value in the output
ExperimentValues(in, out) ==
    /\ out.name = in.name
    /\ out.probability_weight = in.probability_weight
    /\ Has(in, "parameters") => ParamsEqual(in.parameters, out.param)
    /\ Has(in, "feature_association") =>
          \A key \in {"enable_feature", "disable_feature"} :
              Has(in.feature_association, key) =>
                  OutFeatures(out, key) = in.feature_association[key]

FilterValues(in, out) ==
    /\ Has(in, "country") => out.country = in.country
    /\ \A k \in OptionalFilterKeys : Has(in, k) => (Has(out, k) /\ out[k] = in[k])

\* presence: a feature_association present in the input is present in the output
ExperimentPresence(in, out) ==
    Has(in, "feature_association") => Has(out, "feature_association")

\* presence, for a feature_association that names at least one feature
ExperimentPresenceNonEmpty(in, out) ==
    (/\ Has(in, "feature_association")
     /\ \E key \in {"enable_feature", "disable_feature"} :
           Has(in.feature_association, key) /\ in.feature_association[key] # <<>>)
        => Has(out, "feature_association")

\* absence: every optional field omitted from the input is unset in the output
ExperimentAbsence(in, out) ==
    /\ ~Has(in, "parameters") => out.param = <<>>
    /\ ~Has(in, "feature_association") => ~Has(out, "feature_association")
    /\ Has(in, "feature_association") =>
          \A key \in {"enable_feature", "disable_feature"} :
              ~Has(in.feature_association, key) => OutFeatures(out, key) = <<>>

FilterAbsence(in, out) ==
    /\ ~Has(in, "country") => out.country = <<>>
    /\ \A k \in OptionalFilterKeys : ~Has(in, k) => ~Has(out, k)

\* P(in, out) for every experiment, Q(in, out) for the filter, of every study
\* the transformer has added to the message, and the message has every study
\* once the transformer has returned
ForTransformed(P(_, _), Q(_, _)) ==
    /\ Len(seed_message.study) <= Len(seed_data.studies)
    /\ pc \in {"update_serial", "write_serial", "open_seed", "write_seed"} \/ RunSucceeded
          => /\ Len(seed_message.study) = Len(seed_data.studies)
             /\ seed_message.version = seed_data.version
    /\ \A i \in 1..Len(seed_message.study) :
          LET in == seed_data.studies[i]
              out == seed_message.study[i]
          IN  /\ out.name = in.name
              /\ Len(out.experiment) = Len(in.experiments)
              /\ \A j \in 1..Len(in.experiments) : P(in.experiments[j], out.experiment[j])
              /\ Q(in.filter, out.filter)

-----------------------------------------------------------------------------
\* The wire codes C8 names
ChannelWireCode(name) ==
    CASE name = "NIGHTLY" -> "CANARY"
      [] name = "DEV"     -> "DEV"
      [] name = "BETA"    -> "BETA"
      [] name = "RELEASE" -> "STABLE"

PlatformWireCode(name) ==
    CASE name = "WINDOWS" -> "PLATFORM_WINDOWS"
      [] name = "MAC"     -> "PLATFORM_MAC"
      [] name = "LINUX"   -> "PLATFORM_LINUX"
      [] name = "IOS"     -> "PLATFORM_IOS"
      [] name = "ANDROID" -> "PLATFORM_ANDROID"

TransformerEnded ==
    pc \in {"update_serial", "write_serial", "open_seed", "write_seed", "done"}

\* C8: for every study of a document that passed validation, the output
\* filter's channel sequence has the length of the input channel list and
\* its i-th element is the wire code of the i-th input channel, and likewise
\* for the platforms.
C8_ElementWiseImage ==
    (ValidationPassed /\ TransformerEnded) =>
        \A i \in 1..Len(seed_data.studies) :
            /\ i <= Len(seed_message.study)
            /\ LET in == seed_data.studies[i].filter
                   out == seed_message.study[i].filter
               IN  /\ Len(out.channel) = Len(in.channel)
                   /\ \A j \in 1..Len(in.channel) :
                         out.channel[j] = ChannelWireCode(in.channel[j])
                   /\ Len(out.platform) = Len(in.platform)
                   /\ \A j \in 1..Len(in.platform) :
                         out.platform[j] = PlatformWireCode(in.platform[j])

\* The first study, in document order, that breaks a rule of validation
FirstInvalid ==
    CHOOSE i \in 1..Len(seed_data.studies) :
        /\ Invalid(seed_data.studies[i])
        /\ \A j \in 1..(i - 1) : ~Invalid(seed_data.studies[j])

\* C9: when validation fails, the failure reported is that of the first
\* failing study in document order, and the report carries that study's
\* name together with the offending value: the actual weight sum for a
\* weight mismatch, the offending channel or platform name otherwise.
C9_ReportIdentifiesStudy ==
    ValidationFailed =>
        LET study == seed_data.studies[FirstInvalid]
        IN  \E k \in 1..Len(stdout) :
               /\ study.name \in stdout[k].names
               /\ IF ~SumsTo100(study)
                  THEN WeightSum(study.experiments) \in stdout[k].nums
                  ELSE IF BadChannels(study) # {}
                  THEN BadChannels(study) \cap stdout[k].names # {}
                  ELSE BadPlatforms(study) \cap stdout[k].names # {}

=============================================================================
